---- MODULE Spec2Model ----
(***************************************************************************)
(* State-machine model of the DesVault storage node: the sharded storage   *)
(* engine (storage package), the HTTP handlers of the two API servers      *)
(* (cli/cli.go startAPIServer and api/api.go main), the auth package and   *)
(* the KeyManager.                                                         *)
(*                                                                         *)
(* Byte strings are kept run-length encoded: a sequence of runs <<b, n>>   *)
(* (n >= 1, adjacent runs carry different bytes), so that a file of        *)
(* 524,288,001 bytes is a value the model can hold.                        *)
(***************************************************************************)
EXTENDS Integers, Sequences, FiniteSets, TLC

(***************************************************************************)
(* Bounds of the model.                                                    *)
(***************************************************************************)
\* number of operations (HTTP requests, key rotations, token generations)
\* performed in one behaviour
MaxOps == 2
\* number of environment faults (failed add, cat or write, altered bytes)
MaxFaults == 1

(***************************************************************************)
(* Program constants.                                                      *)
(***************************************************************************)
MaxFileSizeBytes == 524288000
numShards == 5
NonceSize == 12
TagSize == 16
KB == 1024

MB == KB * 1024
GB == MB * 1024

(***************************************************************************)
(* Run-length encoded byte strings.                                        *)
(***************************************************************************)
RECURSIVE BLen(_)
BLen(b) == IF b = <<>> THEN 0 ELSE b[1][2] + BLen(Tail(b))

RECURSIVE BTake(_, _)
BTake(b, n) ==
    IF n <= 0 \/ b = <<>> THEN <<>>
    ELSE IF b[1][2] <= n THEN <<b[1]>> \o BTake(Tail(b), n - b[1][2])
    ELSE <<  <<b[1][1], n>>  >>

RECURSIVE BDrop(_, _)
BDrop(b, n) ==
    IF n <= 0 \/ b = <<>> THEN b
    ELSE IF b[1][2] <= n THEN BDrop(Tail(b), n - b[1][2])
    ELSE << <<b[1][1], b[1][2] - n>> >> \o Tail(b)

BCat(x, y) ==
    IF x = <<>> THEN y
    ELSE IF y = <<>> THEN x
    ELSE IF x[Len(x)][1] = y[1][1]
         THEN SubSeq(x, 1, Len(x) - 1)
              \o << <<y[1][1], x[Len(x)][2] + y[1][2]>> >>
              \o Tail(y)
         ELSE x \o y

(***************************************************************************)
(* Inputs: the files clients send, their names, notes and headers.         *)
(***************************************************************************)
Alphabet == <<"a", "b", "c", "d", "e", "f", "g", "h", "i", "j", "k", "l">>
\* the first n letters: "abcdefghij" is SmallFile(10)
SmallFile(n) == [i \in 1..n |-> <<Alphabet[i], 1>>]
\* n - 1 bytes "a" and a last byte "z"
BigFile(n) == << <<"a", n - 1>>, <<"z", 1>> >>
\* the files sent to the servers of Spec
Contents == {BigFile(MaxFileSizeBytes), BigFile(MaxFileSizeBytes + 1)}

\* the run-length encoding of a sequence of bytes
RECURSIVE Encode(_)
Encode(bytes) ==
    IF bytes = <<>> THEN <<>>
    ELSE BCat(<< <<bytes[1], 1>> >>, Encode(Tail(bytes)))

\* longest file whose every content over two bytes is tried in SpecFiles
MaxLen == 8
\* the files of SpecFiles: every content of at most MaxLen bytes over
\* {"a", "b"}, the 10- and 11-byte files of the scenarios, and a file of
\* exactly MaxFileSizeBytes
FileContents ==
    {Encode(b) : b \in UNION {[1..n -> {"a", "b"}] : n \in 0..MaxLen}}
    \cup {SmallFile(10), SmallFile(11), BigFile(MaxFileSizeBytes)}
Names == {"f"}
Notes == {""}

\* fmt.Sprintf with %02x, %016x and %016d: digits, padded to the width
HexAlphabet == <<"0", "1", "2", "3", "4", "5", "6", "7", "8", "9",
                "a", "b", "c", "d", "e", "f">>
Sprintf02x(b) == <<HexAlphabet[(b \div 16) + 1], HexAlphabet[(b % 16) + 1]>>
PadLeft(str, width) ==
    IF Len(str) >= width THEN str
    ELSE [i \in 1..width |-> IF i <= width - Len(str) THEN "0"
                             ELSE str[i - (width - Len(str))]]
RECURSIVE HexString(_)
HexString(bytes) ==
    IF bytes = <<>> THEN <<>>
    ELSE Sprintf02x(bytes[1]) \o HexString(Tail(bytes))
Sprintf016x(bytes) == PadLeft(HexString(bytes), 16)
Sprintf016d(digits) ==
    PadLeft([i \in DOMAIN digits |-> HexAlphabet[digits[i] + 1]], 16)

\* utils.GenerateCID: 8 bytes of crypto/rand in hex, or the error of rand.Read
GenerateCID(bytes, readOk) ==
    IF readOk THEN [err |-> "", cid |-> Sprintf016x(bytes)]
    ELSE [err |-> "failed to generate CID", cid |-> <<>>]

\* generateCID of cli.go: utils.GenerateCID, and rand.Int63() in decimal
\* when it fails
generateCID(bytes, readOk, int63) ==
    IF GenerateCID(bytes, readOk).err # "" THEN Sprintf016d(int63)
    ELSE GenerateCID(bytes, readOk).cid

\* generateCID of api.go: 16 decimal digits of math/rand
ApiGenerateCID(draws) == [i \in 1..16 |-> HexAlphabet[draws[i] + 1]]

\* what the random sources deliver: 8 bytes, the decimal digits of an int63,
\* and 16 draws of rand.Intn(10)
RandomBytes == <<171, 205, 239, 1, 35, 69, 103, 137>>
RandomInt63 == <<9, 2, 2, 3, 3, 7, 2, 0, 3, 6, 8, 5, 4, 7, 7, 5, 8, 0, 7>>
RandomDraws == <<4, 2, 4, 2, 4, 2, 4, 2, 4, 2, 4, 2, 4, 2, 4, 2>>

\* the identifiers each server can give a new row
IdsOf(server) ==
    IF server = "api" THEN {ApiGenerateCID(RandomDraws)}
    ELSE {generateCID(RandomBytes, readOk, RandomInt63) : readOk \in BOOLEAN}
Ids == IdsOf("cli") \cup IdsOf("api")
Servers == {"cli", "api"}

\* The Authorization header is the string scheme \o cred.
Headers == {[scheme |-> "", cred |-> ""],
            [scheme |-> "Bearer ", cred |-> ""],
            [scheme |-> "Bearer ", cred |-> "secret123"],
            [scheme |-> "Bearer ", cred |-> "t_auth"]}

(***************************************************************************)
(* Partial maps (directories, the IPFS block store, the database table).   *)
(***************************************************************************)
EmptyMap == [x \in {} |-> <<>>]
Put(f, k, v) == [x \in (DOMAIN f) \cup {k} |-> IF x = k THEN v ELSE f[x]]
Remove(f, k) == [x \in (DOMAIN f) \ {k} |-> f[x]]

(***************************************************************************)
(* Hashes and content addresses are injective constructors.                *)
(***************************************************************************)
Sha256Hex(data) == [sha256 |-> data]
IpfsAdd(data) == [cid |-> data]

(***************************************************************************)
(* AES-GCM (storage/crypto.go).  A sealed box is the nonce, the key it was *)
(* sealed under, the plaintext, and whether a byte of it was altered after *)
(* sealing; gcm.Open succeeds only under the same key on an unaltered box. *)
(***************************************************************************)
encryptionKey == [id |-> "0123456789abcdef0123456789abcdef", len |-> 32]

\* mutant: a key of any length passes the check
ValidKeyLen_Any(key) == TRUE

ValidKeyLen(key) == key.len = 16 \/ key.len = 24 \/ key.len = 32

EncryptData(plaintext, key, nonce) ==
    IF ~ValidKeyLen(key)
    THEN [err |-> "invalid key length", data |-> <<>>]
    ELSE [err |-> "",
          data |-> [nonce |-> nonce, key |-> key, pt |-> plaintext,
                    flipped |-> FALSE]]

CtLen(data) == NonceSize + BLen(data.pt) + TagSize

DecryptData(data, key) ==
    IF ~ValidKeyLen(key)
    THEN [err |-> "invalid key length", plain |-> <<>>]
    ELSE IF CtLen(data) < NonceSize
    THEN [err |-> "encrypted data too short", plain |-> <<>>]
    ELSE IF data.key # key \/ data.flipped
    THEN [err |-> "failed to decrypt data", plain |-> <<>>]
    ELSE [err |-> "", plain |-> data.pt]

(***************************************************************************)
(* SplitFileIntoShards (storage): five sequential reads of the file.       *)
(***************************************************************************)
\* mutant: the remainder is not added to the last shard
ShardSize_NoRemainder(fileSize, i) == fileSize \div numShards

\* mutant: a file shorter than numShards gives one byte to each of its
\* first shards
ShardSize_OneByteEach(fileSize, i) ==
    IF fileSize < numShards THEN (IF i < fileSize THEN 1 ELSE 0)
    ELSE IF i = numShards - 1
    THEN (fileSize \div numShards) + (fileSize % numShards)
    ELSE fileSize \div numShards

ShardSize(fileSize, i) ==
    IF i = numShards - 1
    THEN (fileSize \div numShards) + (fileSize % numShards)
    ELSE fileSize \div numShards

\* mutant: every read starts at the beginning of the file
ShardOffset_Rewind(fileSize, i) == 0

\* offset of the file pointer before the read of shard i (0-based)
ShardOffset(fileSize, i) == i * (fileSize \div numShards)

SplitFileIntoShards(content) ==
    [k \in 1..numShards |->
        LET data == BTake(BDrop(content, ShardOffset(BLen(content), k - 1)),
                          ShardSize(BLen(content), k - 1))
        IN  [ID |-> Sha256Hex(data), Data |-> data, CID |-> "",
             Copies |-> <<>>]]

\* SplitFileIntoShards of p2p/shard_distribution.go, on a byte slice
P2PSplitFileIntoShards(data, n) ==
    LET shardSize == BLen(data) \div n
    IN  [k \in 1..n |->
            LET start == (k - 1) * shardSize
                end == IF k - 1 = n - 1 THEN BLen(data) ELSE start + shardSize
            IN  BTake(BDrop(data, start), end - start)]

(***************************************************************************)
(* The shard count of the node status.                                     *)
(***************************************************************************)
\* the package variable ShardMap of storage: made empty, never assigned to
ShardMap == EmptyMap

\* GetShardCount of package storage, which cli.go prints: len(ShardMap)
GetShardCount == Cardinality(DOMAIN ShardMap)

\* GetShardCount of part_010: the .bin files of the storage directory
ScanShardCount(dir) == Cardinality(DOMAIN dir)

(***************************************************************************)
(* Converters of the API servers.                                          *)
(***************************************************************************)
\* mutant: the last shard is left out of the JSON array
MarshalShards_DropLast(shards) ==
    [k \in 1..(Len(shards) - 1) |->
        <<shards[k].ID, shards[k].Data, shards[k].CID, shards[k].Copies>>]

\* json.Marshal / json.Unmarshal of []storage.Shard
MarshalShards(shards) ==
    [k \in DOMAIN shards |->
        <<shards[k].ID, shards[k].Data, shards[k].CID, shards[k].Copies>>]
UnmarshalShards(js) ==
    [k \in DOMAIN js |->
        [ID |-> js[k][1], Data |-> js[k][2], CID |-> js[k][3],
         Copies |-> js[k][4]]]

\* two decimals of size/unit, rounded
Hundredths(size, unit) ==
    (size \div unit) * 100 + (((size % unit) * 100 + unit \div 2) \div unit)

formatFileSize(size) ==
    IF size < KB THEN <<size, "B">>
    ELSE IF size < MB THEN <<Hundredths(size, KB), "KB/100">>
    ELSE IF size < GB THEN <<Hundredths(size, MB), "MB/100">>
    ELSE <<Hundredths(size, GB), "GB/100">>

fileMetadataToModel(metadata) ==
    [CID |-> metadata.CID, FileName |-> metadata.FileName,
     Note |-> "", FileSize |-> <<0, "">>,
     Shards |-> MarshalShards(metadata.Shards), CreatedAt |-> 0]

(***************************************************************************)
(* Authentication.                                                         *)
(***************************************************************************)
\* auth.ValidateToken
ValidateToken(token, providedToken) == providedToken = token

\* authMiddleware of cli/cli.go
CliAuthMiddleware(token, h) ==
    /\ h.scheme = "Bearer "
    /\ ValidateToken(token, h.cred)

\* authMiddleware of api/api.go, with its static token
ApiAuthToken == "secret123"
ApiAuthMiddleware(h) == h.scheme = "Bearer " /\ h.cred = ApiAuthToken

(***************************************************************************)
(* KeyManager (package storage, utils/utils.go).                           *)
(***************************************************************************)
HexEncode(key) == [hex |-> key]
HexDecode(h) == h.hex

\* the random 32-byte key NewKeyManager generates on a missing key file
InitialKey == [id |-> "rand-v1", len |-> 32]
Versions == {"v1", "v2"}
RotationKeys == {[id |-> "k8", len |-> 8], [id |-> "k32", len |-> 32]}

(***************************************************************************)
(* State.                                                                  *)
(***************************************************************************)
VARIABLES
    token,       \* auth.token
    ipfs,        \* the IPFS daemon's blocks: content address -> bytes
    storageDir,  \* ~/.desvault/storage: shard ID -> bytes of <ID>.bin
    tmpDir,      \* os.TempDir(): file name -> bytes
    db,          \* table of FileMetadataModel rows, keyed by cid
    km,          \* KeyManager: Active and Keys
    kmFile,      \* the bytes of the key file on disk
    kmFileExists,\* whether the key file exists
    kmMu,        \* holder of KeyManager.mu
    nonce,       \* number of nonces drawn from crypto/rand so far
    req,         \* the request being handled and the handler's position
    resp,        \* the response of the last request, once it is sent
    nOps,        \* operations started
    nFaults,     \* faults injected
    \* history variables
    orig,        \* cid -> what the client uploaded for that row
    aborted,     \* uploads in which an IPFS add failed
    localFailed, \* uploads in which the write of a local shard copy failed
    rotatedAt,   \* the operation in which RotateKey changed the ring, or 0
    born,        \* version label -> the hex key it was created with
    \* concurrent callers of the KeyManager
    callers,     \* caller -> the call it is in and its position
    \* concurrent requests to the server of cli.go
    reqs         \* handler goroutine -> its request and its position

kmVars == <<km, kmFile, kmFileExists, kmMu, rotatedAt, born, callers>>
storeVars == <<ipfs, storageDir>>
histVars == <<orig, aborted, localFailed>>
vars == <<token, ipfs, storageDir, tmpDir, db, km, kmFile, kmMu, nonce,
          req, resp, nOps, nFaults, orig, aborted, localFailed, rotatedAt,
          born, callers, kmFileExists, reqs>>

NoHeader == [scheme |-> "", cred |-> ""]
Idle == [pc |-> "idle", kind |-> "none", server |-> "none", n |-> 0,
         header |-> NoHeader, name |-> "", note |-> "", size |-> 0,
         content |-> <<>>, shards |-> <<>>, i |-> 0, id |-> <<>>, f0 |-> 0]
NoResp == [kind |-> "none", server |-> "none", n |-> 0, code |-> 0,
           err |-> "", header |-> NoHeader, id |-> <<>>, name |-> "",
           content |-> <<>>, shards |-> <<>>, body |-> <<>>, failedAt |-> 0,
           faulted |-> FALSE]

\* mutant: the generated key has 16 bytes
NewKeyManager_Key16 ==
    [Active |-> "v1",
     Keys |-> Put(EmptyMap, "v1", [hex |-> [id |-> "rand-v1", len |-> 16]])]

\* NewKeyManager on a missing key file: a fresh key v1, saved
NewKeyManager ==
    [Active |-> "v1", Keys |-> Put(EmptyMap, "v1", HexEncode(InitialKey))]

\* json.MarshalIndent(km) as the content of the key file; <<>> is the file
\* with no bytes in it
MarshalIndent(ring) == <<ring>>

\* the callers of the KeyManager and a caller outside any call
Callers == {"t1", "t2"}
NoKey == [id |-> "", len |-> 0]
NoBox == [nonce |-> 0, key |-> NoKey, pt |-> <<>>, flipped |-> FALSE]
NoFrame == [sep |-> FALSE, version |-> "", hexOk |-> FALSE, box |-> NoBox]
NoRet == [err |-> "", version |-> "", key |-> NoKey, plain |-> <<>>,
          frame |-> NoFrame]
NoCall == [pc |-> "idle", op |-> "none", version |-> "", key |-> NoKey,
           plain |-> <<>>, frame |-> NoFrame, seen |-> NoKey, data |-> <<>>,
           ret |-> NoRet]

\* the goroutines that handle concurrent requests, and one with no request
Handlers == {"g1", "g2"}
NoReq == [pc |-> "idle", kind |-> "none", n |-> 0, name |-> "",
          content |-> <<>>, shards |-> <<>>, i |-> 0, id |-> <<>>,
          off |-> 0, unlinked |-> FALSE, code |-> 0, err |-> "",
          body |-> <<>>]

Init ==
    /\ token = ""
    /\ ipfs = EmptyMap
    /\ storageDir = EmptyMap
    /\ tmpDir = EmptyMap
    /\ db = EmptyMap
    /\ km = NewKeyManager
    /\ kmFile = MarshalIndent(NewKeyManager)
    /\ kmFileExists = TRUE
    /\ reqs = [g \in Handlers |-> NoReq]
    /\ kmMu = "free"
    /\ born = NewKeyManager.Keys
    /\ callers = [t \in Callers |-> NoCall]
    /\ nonce = 0
    /\ req = Idle
    /\ resp = NoResp
    /\ nOps = 0
    /\ nFaults = 0
    /\ orig = EmptyMap
    /\ aborted = {}
    /\ localFailed = {}
    /\ rotatedAt = 0

CanStart == req.pc = "idle" /\ nOps < MaxOps
CanFault == nFaults < MaxFaults

Admitted(server, h) ==
    IF server = "cli" THEN CliAuthMiddleware(token, h) ELSE ApiAuthMiddleware(h)

\* the response of the request being handled
Reply(code, err, faults) ==
    [kind |-> req.kind, server |-> req.server, n |-> req.n, code |-> code,
     err |-> err, header |-> req.header, id |-> req.id, name |-> req.name,
     content |-> req.content, shards |-> req.shards, body |-> <<>>,
     failedAt |-> 0, faulted |-> faults > req.f0]

(***************************************************************************)
(* auth.GenerateToken                                                      *)
(***************************************************************************)
GenerateToken ==
    /\ req.pc = "idle"
    /\ token = ""
    /\ token' = "t_auth"
    /\ UNCHANGED <<reqs, storeVars, tmpDir, db, kmVars, nonce, req, resp, nOps,
                   nFaults, histVars>>

(***************************************************************************)
(* KeyManager.RotateKey: takes km.mu, checks the length, updates the ring  *)
(* and calls Save, which takes km.mu again.  sync.Mutex is not reentrant:  *)
(* the call never returns from Save and the mutex stays held.              *)
(***************************************************************************)
RotateKey(version, newKey) ==
    /\ CanStart
    /\ kmMu = "free"
    /\ nOps' = nOps + 1
    /\ IF ~ValidKeyLen(newKey)
       THEN UNCHANGED <<km, kmMu, rotatedAt, born>>
       ELSE /\ km' = [Active |-> version,
                      Keys |-> Put(km.Keys, version, HexEncode(newKey))]
            /\ kmMu' = "RotateKey"
            /\ rotatedAt' = nOps + 1
            /\ born' = IF version \in DOMAIN born THEN born
                       ELSE Put(born, version, HexEncode(newKey))
    /\ UNCHANGED <<reqs, token, storeVars, tmpDir, db, kmFile,
                   kmFileExists, nonce, req, resp,
                   nFaults, histVars, callers>>

(***************************************************************************)
(* POST /upload of cli/cli.go (server "cli") and of api/api.go ("api")     *)
(***************************************************************************)
\* the size check of the handler: cli.go has it, api.go has none
TooLarge(server, size) == server = "cli" /\ size > MaxFileSizeBytes

\* authMiddleware, c.FormFile, the size check and c.SaveUploadedFile
UploadRequest(server, h, name, content, note) ==
    /\ CanStart
    /\ nOps' = nOps + 1
    /\ LET r == [Idle EXCEPT !.kind = "upload", !.server = server,
                             !.n = nOps + 1, !.header = h, !.name = name,
                             !.note = IF note = "" THEN "No note available"
                                      ELSE note,
                             !.size = BLen(content), !.content = content,
                             !.f0 = nFaults]
           reply(code, err) ==
               [NoResp EXCEPT !.kind = "upload", !.server = server,
                              !.n = nOps + 1, !.header = h,
                              !.code = code, !.err = err]
       IN  IF ~Admitted(server, h)
           THEN /\ resp' = reply(401, "Unauthorized")
                /\ UNCHANGED <<req, tmpDir>>
           ELSE IF TooLarge(server, r.size)
           THEN /\ resp' = reply(400, "File exceeds maximum allowed size")
                /\ UNCHANGED <<req, tmpDir>>
           ELSE /\ tmpDir' = Put(tmpDir, name, content)
                /\ req' = [r EXCEPT !.pc = "split"]
                /\ resp' = NoResp
    /\ UNCHANGED <<reqs, token, storeVars, db, kmVars, nonce, nFaults, histVars>>

\* the deferred os.Remove(tempPath) of cli.go; api.go leaves the file
UploadCleanup(dir) ==
    IF req.server = "cli" THEN Remove(dir, req.name) ELSE dir

\* UploadFileWithMetadata, first step: SplitFileIntoShards(tempPath)
UploadSplit ==
    /\ req.pc = "split"
    /\ IF req.name \in DOMAIN tmpDir
       THEN /\ req' = [req EXCEPT !.pc = "shard", !.i = 1,
                          !.shards = SplitFileIntoShards(tmpDir[req.name])]
            /\ UNCHANGED <<resp, tmpDir>>
       ELSE /\ resp' = Reply(500, "Upload failed: open", nFaults)
            /\ req' = Idle
            /\ tmpDir' = UploadCleanup(tmpDir)
    /\ UNCHANGED <<reqs, token, storeVars, db, kmVars, nonce, nOps, nFaults,
                   histVars>>

\* mutant: the error of sh.Add is logged and the loop goes on
UploadShardToIPFS_IgnoreAddError(shard, nc, addOk, writeOk, blocks, dir) ==
    LET enc == EncryptData(shard.Data, encryptionKey, nc)
        cid == IpfsAdd(enc.data)
    IN  [err |-> "",
         shard |-> [shard EXCEPT !.Data = enc.data,
                                 !.CID = IF addOk THEN cid ELSE ""],
         blocks |-> IF addOk THEN Put(blocks, cid, enc.data) ELSE blocks,
         dir |-> IF writeOk THEN Put(dir, shard.ID, enc.data) ELSE dir]

\* mutant: a failed write of the permanent copy is returned as an error
UploadShardToIPFS_WriteFailureAborts(shard, nc, addOk, writeOk, blocks, dir) ==
    LET enc == EncryptData(shard.Data, encryptionKey, nc)
        cid == IpfsAdd(enc.data)
    IN  IF ~addOk
        THEN [err |-> "failed to add shard to IPFS",
              shard |-> [shard EXCEPT !.Data = enc.data],
              blocks |-> blocks, dir |-> dir]
        ELSE IF ~writeOk
        THEN [err |-> "failed to store permanent copy",
              shard |-> [shard EXCEPT !.Data = enc.data, !.CID = cid],
              blocks |-> Put(blocks, cid, enc.data), dir |-> dir]
        ELSE [err |-> "",
              shard |-> [shard EXCEPT !.Data = enc.data, !.CID = cid],
              blocks |-> Put(blocks, cid, enc.data),
              dir |-> Put(dir, shard.ID, enc.data)]

\* mutant: the permanent copy holds shard.Data as it was before EncryptData
\* (bytes that open under no key)
UploadShardToIPFS_StorePlain(shard, nc, addOk, writeOk, blocks, dir) ==
    LET enc == EncryptData(shard.Data, encryptionKey, nc)
        cid == IpfsAdd(enc.data)
        raw == [nonce |-> 0, key |-> [id |-> "", len |-> 0],
                pt |-> shard.Data, flipped |-> FALSE]
    IN  IF ~addOk
        THEN [err |-> "failed to add shard to IPFS",
              shard |-> [shard EXCEPT !.Data = enc.data],
              blocks |-> blocks, dir |-> dir]
        ELSE [err |-> "",
              shard |-> [shard EXCEPT !.Data = enc.data, !.CID = cid],
              blocks |-> Put(blocks, cid, enc.data),
              dir |-> IF writeOk THEN Put(dir, shard.ID, raw) ELSE dir]

\* UploadShardToIPFS(&shard): EncryptData under the package key, sh.Add and
\* the permanent copy <ID>.bin.  addOk and writeOk say whether the IPFS
\* daemon and the file system carry out the add and the write.
UploadShardToIPFS(shard, nc, addOk, writeOk, blocks, dir) ==
    LET enc == EncryptData(shard.Data, encryptionKey, nc)
        cid == IpfsAdd(enc.data)
    IN  IF enc.err # ""
        THEN [err |-> "failed to encrypt shard data", shard |-> shard,
              blocks |-> blocks, dir |-> dir]
        ELSE IF ~addOk
        THEN [err |-> "failed to add shard to IPFS",
              shard |-> [shard EXCEPT !.Data = enc.data],
              blocks |-> blocks, dir |-> dir]
        ELSE [err |-> "",
              shard |-> [shard EXCEPT !.Data = enc.data, !.CID = cid],
              blocks |-> Put(blocks, cid, enc.data),
              dir |-> IF writeOk THEN Put(dir, shard.ID, enc.data) ELSE dir]

\* one iteration of the loop of UploadFileWithMetadata
UploadLoopStep(addOk, writeOk) ==
    /\ req.pc = "shard"
    /\ (~addOk \/ ~writeOk) => CanFault
    /\ addOk \/ writeOk
    /\ LET r == UploadShardToIPFS(req.shards[req.i], nonce, addOk, writeOk,
                                  ipfs, storageDir)
           now == [req EXCEPT !.shards[req.i] = r.shard]
       IN  /\ nonce' = nonce + 1
           /\ nFaults' = IF addOk /\ writeOk THEN nFaults ELSE nFaults + 1
           /\ ipfs' = r.blocks
           /\ storageDir' = r.dir
           /\ aborted' = IF addOk THEN aborted
                         ELSE aborted \cup {[n |-> req.n, failedAt |-> req.i,
                                             shards |-> req.shards]}
           /\ localFailed' = IF writeOk THEN localFailed
                             ELSE localFailed \cup {req.n}
           /\ IF r.err # ""
              THEN /\ resp' = [Reply(500, r.err, nFaults') EXCEPT
                                  !.failedAt = req.i, !.shards = now.shards]
                   /\ req' = Idle
                   /\ tmpDir' = UploadCleanup(tmpDir)
              ELSE /\ req' = [now EXCEPT
                                 !.i = req.i + 1,
                                 !.pc = IF req.i = Len(req.shards)
                                        THEN "finish" ELSE "shard"]
                   /\ UNCHANGED <<resp, tmpDir>>
    /\ UNCHANGED <<reqs, token, db, kmVars, nOps, orig>>

\* concatenated += shard.CID, over the shards in list order
Concatenated(shards) == [k \in DOMAIN shards |-> shards[k].CID]

\* sha256.Sum256: the 32 bytes of the hash of a string
Sum256(str) == [b \in 1..32 |-> [sha256 |-> str, byte |-> b]]

\* hex.EncodeToString: two characters for every byte
EncodeToString(bytes) ==
    [j \in 1..(2 * Len(bytes)) |->
        [hexOf |-> bytes[(j + 1) \div 2], nibble |-> 2 - (j % 2)]]

\* mutant: the hash in hex, cut after 16 characters
GlobalCID_Hex16(shards) ==
    SubSeq(EncodeToString(Sum256(Concatenated(shards))), 1, 16)

\* hex.EncodeToString(globalHash[:16])
GlobalCID(shards) ==
    EncodeToString(SubSeq(Sum256(Concatenated(shards)), 1, 16))

\* the end of UploadFileWithMetadata
FileMetadata(shards, fileName, fileSize) ==
    [FileName |-> fileName, FileSize |-> fileSize, CID |-> GlobalCID(shards),
     Shards |-> shards]

\* the rest of UploadFileWithMetadata and of the handler: os.Stat,
\* generateCID, fileMetadataToModel, db.Create and the response
UploadFinish(newCID) ==
    /\ req.pc = "finish"
    /\ IF req.name \notin DOMAIN tmpDir
       THEN /\ resp' = Reply(500, "Upload failed: stat", nFaults)
            /\ UNCHANGED <<db, orig>>
       ELSE LET metadata == [FileMetadata(req.shards, req.name,
                                          BLen(tmpDir[req.name]))
                               EXCEPT !.CID = newCID]
                model == [fileMetadataToModel(metadata) EXCEPT
                             !.Note = req.note,
                             !.FileSize = formatFileSize(req.size),
                             !.CreatedAt = req.n]
            IN  IF newCID \in DOMAIN db
                THEN /\ resp' = [Reply(500, "Database error", nFaults) EXCEPT
                                    !.id = newCID]
                     /\ UNCHANGED <<db, orig>>
                ELSE /\ db' = Put(db, newCID, model)
                     /\ orig' = Put(orig, newCID,
                                    [n |-> req.n, content |-> req.content,
                                     size |-> metadata.FileSize])
                     /\ resp' = [Reply(200, "", nFaults) EXCEPT !.id = newCID]
    /\ req' = Idle
    /\ tmpDir' = UploadCleanup(tmpDir)
    /\ UNCHANGED <<reqs, token, storeVars, kmVars, nonce, nOps, nFaults, aborted,
                   localFailed>>

(***************************************************************************)
(* GET /download/:cid of cli/cli.go                                        *)
(***************************************************************************)
\* authMiddleware, db.First, json.Unmarshal, and os.Create(outputPath) at
\* the start of DownloadFile
DownloadRequest(h, cid) ==
    /\ CanStart
    /\ nOps' = nOps + 1
    /\ LET reply(code, err) ==
               [NoResp EXCEPT !.kind = "download", !.server = "cli",
                              !.n = nOps + 1, !.header = h, !.id = cid,
                              !.code = code, !.err = err]
       IN  IF ~Admitted("cli", h)
           THEN /\ resp' = reply(401, "Unauthorized")
                /\ UNCHANGED <<req, tmpDir>>
           ELSE IF cid \notin DOMAIN db
           THEN /\ resp' = reply(404, "File metadata not found")
                /\ UNCHANGED <<req, tmpDir>>
           ELSE /\ req' = [Idle EXCEPT
                              !.kind = "download", !.server = "cli",
                              !.n = nOps + 1, !.header = h, !.id = cid,
                              !.name = db[cid].FileName,
                              !.shards = UnmarshalShards(db[cid].Shards),
                              !.i = 1, !.pc = "fetch", !.f0 = nFaults]
                /\ tmpDir' = Put(tmpDir, db[cid].FileName, <<>>)
                /\ resp' = NoResp
    /\ UNCHANGED <<reqs, token, storeVars, db, kmVars, nonce, nFaults, histVars>>

\* what sh.Cat and io.ReadAll deliver: the stored bytes, an error (block not
\* found, transport failure), no bytes, or the bytes with one byte altered
CatOutcomes == {"ok", "error", "empty", "tampered"}

\* mutant: when sh.Cat fails, the permanent copy of the shard is read instead
DownloadShardFromIPFS_LocalFallback(cid, cat) ==
    LET local == {id \in DOMAIN storageDir : IpfsAdd(storageDir[id]) = cid}
    IN  IF (cid \notin DOMAIN ipfs \/ cat = "error") /\ local # {}
        THEN DecryptData(storageDir[CHOOSE id \in local : TRUE], encryptionKey)
        ELSE IF cid \notin DOMAIN ipfs \/ cat = "error"
        THEN [err |-> "failed to cat CID", plain |-> <<>>]
        ELSE IF cat = "empty"
        THEN [err |-> "downloaded shard data is empty", plain |-> <<>>]
        ELSE IF cat = "tampered"
        THEN DecryptData([ipfs[cid] EXCEPT !.flipped = TRUE], encryptionKey)
        ELSE DecryptData(ipfs[cid], encryptionKey)

\* DownloadShardFromIPFS(cid): sh.Cat, io.ReadAll, the empty check and
\* DecryptData under the package key
DownloadShardFromIPFS(cid, cat) ==
    IF cid \notin DOMAIN ipfs \/ cat = "error"
    THEN [err |-> "failed to cat CID", plain |-> <<>>]
    ELSE IF cat = "empty"
    THEN [err |-> "downloaded shard data is empty", plain |-> <<>>]
    ELSE IF cat = "tampered"
    THEN DecryptData([ipfs[cid] EXCEPT !.flipped = TRUE], encryptionKey)
    ELSE DecryptData(ipfs[cid], encryptionKey)

\* what DownloadFile leaves at outputPath when it returns an error
DownloadFailed(dir, name) == dir

\* mutant: the shard is written at the start of the output file
WriteShard_AtStart(out, data) == BCat(data, out)

\* outFile.Write(data): the bytes go to the end of the output file
WriteShard(out, data) == BCat(out, data)

\* one iteration of the loop of DownloadFile
DownloadFileStep(cat, writeOk) ==
    /\ req.pc = "fetch"
    /\ (cat # "ok" \/ ~writeOk) => CanFault
    /\ cat = "ok" \/ writeOk
    /\ nFaults' = IF cat = "ok" /\ writeOk THEN nFaults ELSE nFaults + 1
    /\ LET shard == req.shards[req.i]
           got == DownloadShardFromIPFS(shard.CID, cat)
       IN  IF got.err # ""
           THEN /\ resp' = [Reply(500, got.err, nFaults') EXCEPT !.failedAt = req.i]
                /\ req' = Idle
                /\ tmpDir' = DownloadFailed(tmpDir, req.name)
           ELSE IF ~writeOk
           THEN /\ resp' = [Reply(500, "write failed", nFaults') EXCEPT
                               !.failedAt = req.i]
                /\ req' = Idle
                /\ tmpDir' = DownloadFailed(tmpDir, req.name)
           ELSE /\ tmpDir' = [tmpDir EXCEPT
                                 ![req.name] = WriteShard(@, got.plain)]
                /\ req' = [req EXCEPT
                              !.i = req.i + 1,
                              !.pc = IF req.i = Len(req.shards)
                                     THEN "send" ELSE "fetch"]
                /\ UNCHANGED resp
    /\ UNCHANGED <<reqs, token, storeVars, db, kmVars, nonce, nOps, histVars>>

\* the deferred os.Remove(outputPath), registered once DownloadFile has
\* returned nil
DownloadCleanup(dir) == Remove(dir, req.name)

\* c.FileAttachment(outputPath, model.FileName)
DownloadSend ==
    /\ req.pc = "send"
    /\ resp' = [Reply(200, "", nFaults) EXCEPT !.body = tmpDir[req.name]]
    /\ tmpDir' = DownloadCleanup(tmpDir)
    /\ req' = Idle
    /\ UNCHANGED <<reqs, token, storeVars, db, kmVars, nonce, nOps, nFaults,
                   histVars>>

Next ==
    \/ GenerateToken
    \/ \E version \in Versions, newKey \in RotationKeys :
           RotateKey(version, newKey)
    \/ \E server \in Servers, h \in Headers, name \in Names,
          content \in Contents, note \in Notes :
           UploadRequest(server, h, name, content, note)
    \/ UploadSplit
    \/ \E addOk \in BOOLEAN, writeOk \in BOOLEAN :
           UploadLoopStep(addOk, writeOk)
    \/ \E newCID \in IdsOf(req.server) : UploadFinish(newCID)
    \/ \E h \in Headers, cid \in Ids : DownloadRequest(h, cid)
    \/ \E cat \in CatOutcomes, writeOk \in BOOLEAN :
           DownloadFileStep(cat, writeOk)
    \/ DownloadSend

Spec == Init /\ [][Next]_vars

(***************************************************************************)
(* SpecFiles: the servers without faults, started with the token installed *)
(* and one admitted upload of cli.go saved to the temporary directory, for *)
(* every file of FileContents.                                             *)
(***************************************************************************)
BearerToken == [scheme |-> "Bearer ", cred |-> "t_auth"]

InitFiles ==
    /\ token = "t_auth"
    /\ ipfs = EmptyMap
    /\ storageDir = EmptyMap
    /\ \E content \in FileContents, name \in Names :
           /\ tmpDir = Put(EmptyMap, name, content)
           /\ req = [Idle EXCEPT !.kind = "upload", !.server = "cli",
                                 !.n = 1, !.header = BearerToken,
                                 !.name = name, !.note = "No note available",
                                 !.size = BLen(content), !.content = content,
                                 !.pc = "split"]
    /\ db = EmptyMap
    /\ km = NewKeyManager
    /\ kmFile = MarshalIndent(NewKeyManager)
    /\ kmFileExists = TRUE
    /\ reqs = [g \in Handlers |-> NoReq]
    /\ kmMu = "free"
    /\ born = NewKeyManager.Keys
    /\ callers = [t \in Callers |-> NoCall]
    /\ nonce = 0
    /\ resp = NoResp
    /\ nOps = 1
    /\ nFaults = 0
    /\ orig = EmptyMap
    /\ aborted = {}
    /\ localFailed = {}
    /\ rotatedAt = 0

NextFiles ==
    \/ UploadSplit
    \/ UploadLoopStep(TRUE, TRUE)
    \/ \E newCID \in IdsOf(req.server) : UploadFinish(newCID)
    \/ \E h \in Headers, cid \in Ids : DownloadRequest(h, cid)
    \/ DownloadFileStep("ok", TRUE)
    \/ DownloadSend

SpecFiles == InitFiles /\ [][NextFiles]_vars

(***************************************************************************)
(* SpecKeys: the KeyManager of utils/utils.go under concurrent callers.    *)
(* Every call is a sequence of steps; km.mu is held by at most the caller  *)
(* whose Lock returned.                                                    *)
(***************************************************************************)
\* calls started in SpecKeys
MaxCalls == 3

\* mutant: Lock returns at once whoever holds the mutex
CanLock_Always(mu) == TRUE

\* km.mu.Lock() returns only when nobody holds the mutex (not reentrant)
CanLock(mu) == mu = "free"

\* mutant: an unknown version is answered with the active key
GetKey_ActiveFallback(ring, version) ==
    IF version \notin DOMAIN ring.Keys
    THEN [err |-> "", key |-> HexDecode(ring.Keys[ring.Active])]
    ELSE [err |-> "", key |-> HexDecode(ring.Keys[version])]

\* the body of KeyManager.GetKey
GetKey(ring, version) ==
    IF version \notin DOMAIN ring.Keys
    THEN [err |-> "key version not found", key |-> NoKey]
    ELSE [err |-> "", key |-> HexDecode(ring.Keys[version])]

\* encrypt of utils.go: gcm.Seal(nonce, nonce, plaintext, nil)
encrypt(plaintext, key, nc) ==
    IF ~ValidKeyLen(key)
    THEN [err |-> "invalid key length", data |-> NoBox]
    ELSE [err |-> "",
          data |-> [nonce |-> nc, key |-> key, pt |-> plaintext,
                    flipped |-> FALSE]]

\* mutant: the tag is not verified
decrypt_NoAuth(data, key) ==
    IF ~ValidKeyLen(key)
    THEN [err |-> "invalid key length", plain |-> <<>>]
    ELSE [err |-> "", plain |-> data.pt]

\* decrypt of utils.go: the nonce is split off and gcm.Open verifies the tag
decrypt(data, key) ==
    IF ~ValidKeyLen(key)
    THEN [err |-> "invalid key length", plain |-> <<>>]
    ELSE IF CtLen(data) < NonceSize
    THEN [err |-> "encrypted data too short", plain |-> <<>>]
    ELSE IF data.key # key \/ data.flipped
    THEN [err |-> "decryption failed", plain |-> <<>>]
    ELSE [err |-> "", plain |-> data.pt]

\* fmt.Sprintf("%s:%s", version, hex.EncodeToString(ciphertext))
Frame(version, box) ==
    [sep |-> TRUE, version |-> version, hexOk |-> TRUE, box |-> box]

\* the rings NewKeyManager returns: a fresh one, or one loaded from a file
Key16 == [id |-> "k16", len |-> 16]
Key24 == [id |-> "k24", len |-> 24]
InitialRings ==
    {NewKeyManager,
     [Active |-> "v1", Keys |-> Put(EmptyMap, "v1", HexEncode(Key16))],
     [Active |-> "v2",
      Keys |-> Put(Put(EmptyMap, "v1", HexEncode(InitialKey)),
                   "v2", HexEncode(Key24))]}

Plaintexts == {<<>>, SmallFile(3)}

\* frames written by nobody: an unknown version label in front of a sealed
\* box, with or without a payload that is valid hex
ForgedFrames ==
    {[sep |-> TRUE, version |-> "v9", hexOk |-> ok,
      box |-> encrypt(<<>>, InitialKey, 0).data] : ok \in BOOLEAN}

\* the frames EncryptDataWithKeyManager has returned so far
ReturnedFrames ==
    {callers[t].ret.frame : t \in {u \in Callers : callers[u].op = "Encrypt"
                                                   /\ callers[u].pc = "done"}}

\* a returned frame as it is, with a byte of the sealed box altered, under
\* another version label, or with its separator removed
FramesOf(f) ==
    {f, [f EXCEPT !.box.flipped = TRUE], [f EXCEPT !.version = "v9"],
     [f EXCEPT !.sep = FALSE]}

DecryptInputs == ForgedFrames \cup UNION {FramesOf(f) : f \in ReturnedFrames}

serverVars == <<token, storeVars, tmpDir, db, req, resp, nFaults, histVars,
                rotatedAt, reqs>>

InitKeys ==
    /\ token = ""
    /\ ipfs = EmptyMap
    /\ storageDir = EmptyMap
    /\ tmpDir = EmptyMap
    /\ db = EmptyMap
    /\ km \in InitialRings
    /\ kmFile = MarshalIndent(km)
    /\ kmFileExists = TRUE
    /\ reqs = [g \in Handlers |-> NoReq]
    /\ kmMu = "free"
    /\ born = km.Keys
    /\ callers = [t \in Callers |-> NoCall]
    /\ nonce = 0
    /\ req = Idle
    /\ resp = NoResp
    /\ nOps = 0
    /\ nFaults = 0
    /\ orig = EmptyMap
    /\ aborted = {}
    /\ localFailed = {}
    /\ rotatedAt = 0

\* NewKeyManager has returned the KeyManager (nobody holds the pointer before)
Constructed ==
    \A u \in Callers :
        callers[u].op = "NewKeyManager" =>
            callers[u].pc = "done" /\ callers[u].ret.err = ""

\* caller t goes on as c
Move(t, c) == callers' = [callers EXCEPT ![t] = c]
\* caller t returns r
Return(t, r) == Move(t, [callers[t] EXCEPT !.pc = "done", !.ret = r])

\* caller t enters a call
KmCall(t, op, version, key, plain, frame) ==
    /\ callers[t].pc \in {"idle", "done"}
    /\ Constructed
    /\ nOps < MaxCalls
    /\ nOps' = nOps + 1
    /\ Move(t, [NoCall EXCEPT !.op = op, !.version = version, !.key = key,
                              !.plain = plain, !.frame = frame,
                              !.pc = IF op = "Decrypt" THEN "dec_parse"
                                    ELSE "lock"])
    /\ UNCHANGED <<serverVars, km, kmFile, kmFileExists, kmMu, born, nonce>>

\* km.mu.Lock() at the head of GetActiveKey, GetKey, RotateKey and Save
KmLock(t) ==
    /\ callers[t].pc \in {"lock", "save_lock"}
    /\ CanLock(kmMu)
    /\ kmMu' = t
    /\ Move(t, [callers[t] EXCEPT !.pc =
                   IF callers[t].pc = "save_lock" THEN "save_trunc"
                   ELSE CASE callers[t].op \in {"GetActiveKey", "Encrypt"}
                               -> "ga_read"
                          [] callers[t].op \in {"GetKey", "Decrypt"} -> "gk"
                          [] callers[t].op = "RotateKey" -> "rk_check"
                          [] OTHER -> "save_trunc"])
    /\ UNCHANGED <<serverVars, km, kmFile, kmFileExists, born, nonce, nOps>>
\* GetActiveKey, lines 113-123: the active version is looked up and decoded
GaRead(t) ==
    /\ callers[t].pc = "ga_read"
    /\ IF km.Active = "" \/ km.Active \notin DOMAIN km.Keys
       THEN /\ Return(t, [NoRet EXCEPT !.err = "no active key found"])
            /\ kmMu' = "free"
       ELSE /\ Move(t, [callers[t] EXCEPT
                           !.pc = "ga_ret",
                           !.seen = HexDecode(km.Keys[km.Active])])
            /\ UNCHANGED kmMu
    /\ UNCHANGED <<serverVars, km, kmFile, kmFileExists, born, nonce, nOps>>

\* GetActiveKey, line 124: return km.Active, key; the deferred Unlock
GaReturn(t) ==
    /\ callers[t].pc = "ga_ret"
    /\ kmMu' = "free"
    /\ LET r == [NoRet EXCEPT !.version = km.Active, !.key = callers[t].seen]
       IN  IF callers[t].op = "Encrypt"
           THEN Move(t, [callers[t] EXCEPT !.pc = "enc", !.ret = r])
           ELSE Return(t, r)
    /\ UNCHANGED <<serverVars, km, kmFile, kmFileExists, born, nonce, nOps>>

\* the body of GetKey and its deferred Unlock
GkBody(t) ==
    /\ callers[t].pc = "gk"
    /\ kmMu' = "free"
    /\ LET version == IF callers[t].op = "Decrypt"
                      THEN callers[t].frame.version ELSE callers[t].version
           r == GetKey(km, version)
       IN  IF callers[t].op = "Decrypt" /\ r.err = ""
           THEN Move(t, [callers[t] EXCEPT !.pc = "dec_open", !.key = r.key])
           ELSE Return(t, [NoRet EXCEPT !.err = r.err, !.key = r.key,
                                        !.version = version])
    /\ UNCHANGED <<serverVars, km, kmFile, kmFileExists, born, nonce, nOps>>

\* RotateKey, lines 146-149: the length check
RkCheck(t) ==
    /\ callers[t].pc = "rk_check"
    /\ IF ~ValidKeyLen(callers[t].key)
       THEN /\ Return(t, [NoRet EXCEPT !.err = "invalid key length"])
            /\ kmMu' = "free"
       ELSE /\ Move(t, [callers[t] EXCEPT !.pc = "rk_keys"])
            /\ UNCHANGED kmMu
    /\ UNCHANGED <<serverVars, km, kmFile, kmFileExists, born, nonce, nOps>>

\* RotateKey, line 150: km.Keys[version] = hex.EncodeToString(newKey)
RkKeys(t) ==
    /\ callers[t].pc = "rk_keys"
    /\ km' = [km EXCEPT !.Keys = Put(@, callers[t].version,
                                     HexEncode(callers[t].key))]
    /\ born' = IF callers[t].version \in DOMAIN born THEN born
               ELSE Put(born, callers[t].version, HexEncode(callers[t].key))
    /\ Move(t, [callers[t] EXCEPT !.pc = "rk_active"])
    /\ UNCHANGED <<serverVars, kmFile, kmFileExists, kmMu, nonce, nOps>>

\* RotateKey, lines 151-152: km.Active = version; return km.Save()
RkActive(t) ==
    /\ callers[t].pc = "rk_active"
    /\ km' = [km EXCEPT !.Active = callers[t].version]
    /\ Move(t, [callers[t] EXCEPT !.pc = "save_lock"])
    /\ UNCHANGED <<serverVars, kmFile, kmFileExists, kmMu, born, nonce, nOps>>

\* Save, lines 102-106: json.MarshalIndent, then ioutil.WriteFile opens the
\* key file with O_TRUNC
SaveTrunc(t) ==
    /\ callers[t].pc = "save_trunc"
    /\ kmFile' = <<>>
    /\ kmFileExists' = TRUE
    /\ Move(t, [callers[t] EXCEPT !.pc = "save_write",
                                  !.data = MarshalIndent(km)])
    /\ UNCHANGED <<serverVars, km, kmMu, born, nonce, nOps>>

\* Save, line 106: ioutil.WriteFile writes the bytes; the deferred Unlock
SaveWrite(t) ==
    /\ callers[t].pc = "save_write"
    /\ kmFile' = callers[t].data
    /\ kmMu' = "free"
    /\ IF callers[t].op = "NewKeyManager"
       THEN Move(t, [callers[t] EXCEPT !.pc = "nk_ret"])
       ELSE Return(t, NoRet)
    /\ UNCHANGED <<serverVars, km, kmFileExists, born, nonce, nOps>>

\* EncryptDataWithKeyManager, lines 177-182: encrypt and frame
EncSeal(t) ==
    /\ callers[t].pc = "enc"
    /\ nonce' = nonce + 1
    /\ LET c == encrypt(callers[t].plain, callers[t].ret.key, nonce)
       IN  IF c.err # ""
           THEN Return(t, [NoRet EXCEPT !.err = c.err])
           ELSE Return(t, [callers[t].ret EXCEPT
                              !.frame = Frame(callers[t].ret.version, c.data)])
    /\ UNCHANGED <<serverVars, km, kmFile, kmFileExists, kmMu, born, nOps>>

\* DecryptDataWithKeyManager, lines 188-197: strings.SplitN and
\* hex.DecodeString, before the key is looked up
DecParse(t) ==
    /\ callers[t].pc = "dec_parse"
    /\ IF ~callers[t].frame.sep
       THEN Return(t, [NoRet EXCEPT !.err = "invalid encrypted data format"])
       ELSE IF ~callers[t].frame.hexOk
       THEN Return(t, [NoRet EXCEPT !.err = "failed to decode ciphertext"])
       ELSE Move(t, [callers[t] EXCEPT !.pc = "lock"])
    /\ UNCHANGED <<serverVars, km, kmFile, kmFileExists, kmMu, born, nonce, nOps>>

\* DecryptDataWithKeyManager, line 202: decrypt(ciphertext, key)
DecOpen(t) ==
    /\ callers[t].pc = "dec_open"
    /\ LET r == decrypt(callers[t].frame.box, callers[t].key)
       IN  Return(t, [NoRet EXCEPT !.err = r.err, !.plain = r.plain,
                                   !.key = callers[t].key,
                                   !.version = callers[t].frame.version])
    /\ UNCHANGED <<serverVars, km, kmFile, kmFileExists, kmMu, born, nonce, nOps>>

\* a step of caller t inside its call
KmStep(t) ==
    \/ KmLock(t)
    \/ GaRead(t)
    \/ GaReturn(t)
    \/ GkBody(t)
    \/ RkCheck(t)
    \/ RkKeys(t)
    \/ RkActive(t)
    \/ SaveTrunc(t)
    \/ SaveWrite(t)
    \/ EncSeal(t)
    \/ DecParse(t)
    \/ DecOpen(t)

\* caller t enters one of the exported calls
KmEnter(t) ==
    \/ KmCall(t, "GetActiveKey", "", NoKey, <<>>, NoFrame)
    \/ \E version \in Versions :
           KmCall(t, "GetKey", version, NoKey, <<>>, NoFrame)
    \/ \E version \in Versions, newKey \in RotationKeys :
           KmCall(t, "RotateKey", version, newKey, <<>>, NoFrame)
    \/ KmCall(t, "Save", "", NoKey, <<>>, NoFrame)
    \/ \E plain \in Plaintexts :
           KmCall(t, "Encrypt", "", NoKey, plain, NoFrame)
    \/ \E frame \in DecryptInputs :
           KmCall(t, "Decrypt", "", NoKey, <<>>, frame)

NextKeys == \E t \in Callers : KmEnter(t) \/ KmStep(t)

SpecKeys == InitKeys /\ [][NextKeys]_vars

\* every caller that can take a step eventually takes one
SpecKeysFair == SpecKeys /\ \A t \in Callers : WF_vars(KmStep(t))

(***************************************************************************)
(* SpecBoot: the node starts.  NewKeyManager(file) runs on a key file that *)
(* is missing, holds a ring saved by an earlier run, or holds no bytes;    *)
(* once it has returned the KeyManager, the callers use it as in SpecKeys. *)
(***************************************************************************)
\* km := &KeyManager{Keys: make(map[string]string), File: file}
EmptyKeyManager == [Active |-> "", Keys |-> EmptyMap]

\* the key files a starting node can find
KeyFilesOnDisk == {<<>>} \cup {MarshalIndent(ring) : ring \in InitialRings}

InitBoot ==
    /\ token = ""
    /\ ipfs = EmptyMap
    /\ storageDir = EmptyMap
    /\ tmpDir = EmptyMap
    /\ db = EmptyMap
    /\ km = EmptyKeyManager
    /\ kmFileExists \in BOOLEAN
    /\ kmFile \in (IF kmFileExists THEN KeyFilesOnDisk ELSE {<<>>})
    /\ kmMu = "free"
    /\ born = EmptyMap
    /\ callers = [t \in Callers |->
                     IF t = "t1"
                     THEN [NoCall EXCEPT !.op = "NewKeyManager",
                                         !.pc = "nk_stat"]
                     ELSE NoCall]
    /\ reqs = [g \in Handlers |-> NoReq]
    /\ nonce = 0
    /\ req = Idle
    /\ resp = NoResp
    /\ nOps = 0
    /\ nFaults = 0
    /\ orig = EmptyMap
    /\ aborted = {}
    /\ localFailed = {}
    /\ rotatedAt = 0

\* NewKeyManager, line 71: os.Stat(file) and os.IsNotExist
NkStat(t) ==
    /\ callers[t].pc = "nk_stat"
    /\ Move(t, [callers[t] EXCEPT !.pc = IF kmFileExists THEN "nk_load"
                                         ELSE "nk_rand"])
    /\ UNCHANGED <<serverVars, km, kmFile, kmFileExists, kmMu, born, nonce,
                   nOps>>

\* NewKeyManager, lines 73-79: 32 bytes of crypto/rand become the key v1,
\* v1 becomes active, and Save is called
NkRand(t, readOk) ==
    /\ callers[t].pc = "nk_rand"
    /\ IF ~readOk
       THEN /\ Return(t, [NoRet EXCEPT !.err = "failed to generate new key"])
            /\ UNCHANGED <<km, born>>
       ELSE /\ km' = NewKeyManager
            /\ born' = NewKeyManager.Keys
            /\ Move(t, [callers[t] EXCEPT !.pc = "save_lock"])
    /\ UNCHANGED <<serverVars, kmFile, kmFileExists, kmMu, nonce, nOps>>

\* NewKeyManager, lines 82-83: Save has returned nil; return km, nil
NkReturn(t) ==
    /\ callers[t].pc = "nk_ret"
    /\ Return(t, NoRet)
    /\ UNCHANGED <<serverVars, km, kmFile, kmFileExists, kmMu, born, nonce,
                   nOps>>

\* NewKeyManager, lines 87-95: ioutil.ReadFile and json.Unmarshal into km
NkLoad(t) ==
    /\ callers[t].pc = "nk_load"
    /\ IF kmFile = <<>>
       THEN /\ Return(t, [NoRet EXCEPT !.err = "failed to unmarshal key file"])
            /\ UNCHANGED <<km, born>>
       ELSE /\ km' = kmFile[1]
            /\ born' = kmFile[1].Keys
            /\ Return(t, NoRet)
    /\ UNCHANGED <<serverVars, kmFile, kmFileExists, kmMu, nonce, nOps>>

\* a step of the constructor
NkStep(t) ==
    \/ NkStat(t)
    \/ \E readOk \in BOOLEAN : NkRand(t, readOk)
    \/ NkReturn(t)
    \/ NkLoad(t)

NextBoot == \E t \in Callers : NkStep(t) \/ KmEnter(t) \/ KmStep(t)

SpecBoot == InitBoot /\ [][NextBoot]_vars

(***************************************************************************)
(* SpecConc: the server of cli.go handling admitted requests concurrently, *)
(* one goroutine per request, with every store operation succeeding.  The  *)
(* handlers share os.TempDir(), the storage directory, IPFS and the table. *)
(* A file is known by its name while it is linked; a handler whose open    *)
(* file was removed by another handler goes on writing to bytes nobody can *)
(* reach (unlinked).                                                       *)
(***************************************************************************)
\* requests started in SpecConc
MaxReqs == 2

\* the files sent concurrently: "abcde" and "bbbbbb", which share the
\* one-byte shard "b"
ConcContents == {SmallFile(5), << <<"b", 6>> >>}

\* a byte the file system puts where nothing was written
ZeroByte == "\\0"

\* write(2) of data at offset off of a file: a hole is filled with zero
\* bytes, the bytes behind the written range stay
WriteAt(file, off, data) ==
    IF data = <<>> THEN file
    ELSE LET padded == IF BLen(file) < off
                       THEN BCat(file, << <<ZeroByte, off - BLen(file)>> >>)
                       ELSE file
         IN  BCat(BCat(BTake(padded, off), data),
                  BDrop(padded, off + BLen(data)))

\* a shard file with no bytes in it
Truncated == NoBox

\* mutant: the bytes are written behind those the file holds
WriteShardFile_Append(old, data) ==
    IF old = Truncated THEN data ELSE [data EXCEPT !.flipped = TRUE]

\* the write of os.WriteFile, at offset 0 of the file it opened: the bytes
\* the file holds behind the written range stay
WriteShardFile(old, data) ==
    IF old = Truncated \/ CtLen(old) <= CtLen(data) THEN data
    ELSE [data EXCEPT !.flipped = TRUE]

\* the number of the next request of handler g: the requests of the two
\* handlers and the earlier uploads are numbered apart
HandlerBase(g) == IF g = "g1" THEN 10 ELSE 20
NextRequest(g) ==
    IF reqs[g].n = 0 THEN HandlerBase(g) + 1 ELSE reqs[g].n + 1

\* the nonce crypto/rand gives to shard i of request n
FreshNonce(n, i) == n * numShards + i

\* generateCID for request n: utils.GenerateCID on the 8 bytes crypto/rand
\* gives to that request
ConcGenerateCID(n) ==
    generateCID([RandomBytes EXCEPT ![8] = n], TRUE, RandomInt63)

\* handlers that hold an open descriptor on the file of that name
HasFd(g, name) ==
    /\ reqs[g].pc \in {"copy", "fetch"}
    /\ reqs[g].name = name
    /\ ~reqs[g].unlinked

\* os.Remove(path): the name goes, open descriptors keep the bytes
Unlink(rs, name) ==
    [g \in Handlers |->
        IF HasFd(g, name) THEN [rs[g] EXCEPT !.unlinked = TRUE] ELSE rs[g]]

\* the row the handler creates for request n
ConcModel(shards, name, fileSize, content, n, newCID) ==
    [fileMetadataToModel([FileMetadata(shards, name, fileSize)
                             EXCEPT !.CID = newCID])
        EXCEPT !.Note = "No note available",
               !.FileSize = formatFileSize(BLen(content)),
               !.CreatedAt = n]

\* the loop of UploadFileWithMetadata over the shards 1..k, alone
RECURSIVE UploadShards(_, _, _, _, _)
UploadShards(shards, n, k, blocks, dir) ==
    IF k = 0 THEN [shards |-> shards, blocks |-> blocks, dir |-> dir]
    ELSE LET prev == UploadShards(shards, n, k - 1, blocks, dir)
             r == UploadShardToIPFS(prev.shards[k], FreshNonce(n, k),
                                    TRUE, TRUE, prev.blocks, prev.dir)
         IN  [shards |-> [prev.shards EXCEPT ![k] = r.shard],
              blocks |-> r.blocks, dir |-> r.dir]

\* the files uploaded one after the other before the concurrent requests
\* arrive, all under the same name
Earlier == <<SmallFile(5), << <<"b", 6>> >> >>
EarlierName == "f"

\* the stores and the table after the first k uploads of Earlier
RECURSIVE AfterUploads(_)
AfterUploads(k) ==
    IF k = 0
    THEN [ipfs |-> EmptyMap, storageDir |-> EmptyMap, db |-> EmptyMap,
          orig |-> EmptyMap]
    ELSE LET st == AfterUploads(k - 1)
             u == UploadShards(SplitFileIntoShards(Earlier[k]), k, numShards,
                               st.ipfs, st.storageDir)
             id == ConcGenerateCID(k)
         IN  [ipfs |-> u.blocks, storageDir |-> u.dir,
              db |-> Put(st.db, id,
                         ConcModel(u.shards, EarlierName, BLen(Earlier[k]),
                                   Earlier[k], k, id)),
              orig |-> Put(st.orig, id,
                           [n |-> k, content |-> Earlier[k],
                            size |-> BLen(Earlier[k])])]

concVars == <<token, km, kmFile, kmFileExists, kmMu, rotatedAt, born,
              callers, req, resp, nFaults, aborted, localFailed, nonce>>

InitConc ==
    /\ token = "t_auth"
    /\ ipfs = AfterUploads(Len(Earlier)).ipfs
    /\ storageDir = AfterUploads(Len(Earlier)).storageDir
    /\ tmpDir = EmptyMap
    /\ db = AfterUploads(Len(Earlier)).db
    /\ km = NewKeyManager
    /\ kmFile = <<km>>
    /\ kmFileExists = TRUE
    /\ kmMu = "free"
    /\ born = km.Keys
    /\ callers = [t \in Callers |-> NoCall]
    /\ reqs = [g \in Handlers |-> NoReq]
    /\ nonce = 0
    /\ req = Idle
    /\ resp = NoResp
    /\ nOps = 0
    /\ nFaults = 0
    /\ orig = AfterUploads(Len(Earlier)).orig
    /\ aborted = {}
    /\ localFailed = {}
    /\ rotatedAt = 0

\* handler g goes on as r
Go(g, r) == reqs' = [reqs EXCEPT ![g] = r]

\* what is left of a request once it is answered
Answered(r, code, err, body, id) ==
    [NoReq EXCEPT !.pc = "done", !.kind = r.kind, !.n = r.n,
                  !.name = r.name,
                  !.id = id, !.code = code, !.err = err,
                  !.body = body]

\* handler g answers, and its deferred os.Remove(path) runs
Answer(g, code, err, body, id) ==
    /\ reqs' = [Unlink(reqs, reqs[g].name) EXCEPT
                   ![g] = Answered(reqs[g], code, err, body, id)]
    /\ tmpDir' = Remove(tmpDir, reqs[g].name)

\* POST /upload, c.SaveUploadedFile: os.Create(tempPath)
ConcUploadCreate(g, name, content) ==
    /\ reqs[g].pc \in {"idle", "done"}
    /\ nOps < MaxReqs
    /\ nOps' = nOps + 1
    /\ tmpDir' = Put(tmpDir, name, <<>>)
    /\ Go(g, [NoReq EXCEPT !.kind = "upload",
                          !.n = NextRequest(g), !.name = name,
                          !.content = content, !.pc = "copy"])
    /\ UNCHANGED <<concVars, storeVars, db, orig>>

\* c.SaveUploadedFile: io.Copy(out, src)
ConcUploadCopy(g) ==
    /\ reqs[g].pc = "copy"
    /\ tmpDir' = IF reqs[g].unlinked THEN tmpDir
                 ELSE [tmpDir EXCEPT
                          ![reqs[g].name] = WriteAt(@, 0, reqs[g].content)]
    /\ Go(g, [reqs[g] EXCEPT !.pc = "split"])
    /\ UNCHANGED <<concVars, storeVars, db, orig, nOps>>

\* UploadFileWithMetadata: SplitFileIntoShards(tempPath)
ConcUploadSplit(g) ==
    /\ reqs[g].pc = "split"
    /\ IF reqs[g].name \in DOMAIN tmpDir
       THEN /\ Go(g, [reqs[g] EXCEPT
                         !.pc = "add", !.i = 1,
                         !.shards = SplitFileIntoShards(tmpDir[reqs[g].name])])
            /\ UNCHANGED tmpDir
       ELSE Answer(g, 500, "Upload failed: open", <<>>, <<>>)
    /\ UNCHANGED <<concVars, storeVars, db, orig, nOps>>

\* UploadShardToIPFS, lines 113-143: EncryptData, sh.Add, and os.WriteFile
\* opens <ID>.bin with O_TRUNC.  (The block added to IPFS is read by nobody
\* before the descriptor is recorded, so the add and the open are one step.)
ConcShardAdd(g) ==
    /\ reqs[g].pc = "add"
    /\ LET r == UploadShardToIPFS(reqs[g].shards[reqs[g].i],
                                  FreshNonce(reqs[g].n, reqs[g].i),
                                  TRUE, FALSE, ipfs, storageDir)
       IN  /\ ipfs' = r.blocks
           /\ storageDir' = Put(storageDir, r.shard.ID, Truncated)
           /\ Go(g, [reqs[g] EXCEPT !.shards[reqs[g].i] = r.shard,
                                    !.pc = "lwrite"])
    /\ UNCHANGED <<concVars, tmpDir, db, orig, nOps>>

\* UploadShardToIPFS, line 143: os.WriteFile writes shard.Data and closes
ConcShardWrite(g) ==
    /\ reqs[g].pc = "lwrite"
    /\ LET shard == reqs[g].shards[reqs[g].i]
       IN  /\ storageDir' = [storageDir EXCEPT
                                ![shard.ID] = WriteShardFile(@, shard.Data)]
           /\ Go(g, [reqs[g] EXCEPT
                        !.i = reqs[g].i + 1,
                        !.pc = IF reqs[g].i = Len(reqs[g].shards)
                               THEN "finish" ELSE "add"])
    /\ UNCHANGED <<concVars, ipfs, tmpDir, db, orig, nOps>>

\* the rest of UploadFileWithMetadata and of the handler: os.Stat,
\* generateCID, db.Create, the response and the deferred os.Remove(tempPath)
ConcUploadFinish(g, newCID) ==
    /\ reqs[g].pc = "finish"
    /\ IF reqs[g].name \notin DOMAIN tmpDir
       THEN /\ Answer(g, 500, "Upload failed: stat", <<>>, <<>>)
            /\ UNCHANGED <<db, orig>>
       ELSE LET fileSize == BLen(tmpDir[reqs[g].name])
                model == ConcModel(reqs[g].shards, reqs[g].name, fileSize,
                                   reqs[g].content, reqs[g].n, newCID)
            IN  IF newCID \in DOMAIN db
                THEN /\ Answer(g, 500, "Database error", <<>>, newCID)
                     /\ UNCHANGED <<db, orig>>
                ELSE /\ db' = Put(db, newCID, model)
                     /\ orig' = Put(orig, newCID,
                                    [n |-> reqs[g].n,
                                     content |-> reqs[g].content,
                                     size |-> fileSize])
                     /\ Answer(g, 200, "", <<>>, newCID)
    /\ UNCHANGED <<concVars, storeVars, nOps>>

\* GET /download/:cid: db.First, json.Unmarshal and os.Create(outputPath)
ConcDownloadCreate(g, cid) ==
    /\ reqs[g].pc \in {"idle", "done"}
    /\ nOps < MaxReqs
    /\ cid \in DOMAIN db
    /\ nOps' = nOps + 1
    /\ tmpDir' = Put(tmpDir, db[cid].FileName, <<>>)
    /\ Go(g, [NoReq EXCEPT !.kind = "download",
                          !.n = NextRequest(g), !.id = cid,
                          !.name = db[cid].FileName,
                          !.shards = UnmarshalShards(db[cid].Shards),
                          !.i = 1, !.pc = "fetch"])
    /\ UNCHANGED <<concVars, storeVars, db, orig>>

\* one iteration of the loop of DownloadFile: the plaintext of the shard is
\* written at the offset of this handler's descriptor
ConcDownloadStep(g) ==
    /\ reqs[g].pc = "fetch"
    /\ LET got == DownloadShardFromIPFS(reqs[g].shards[reqs[g].i].CID, "ok")
       IN  /\ got.err = ""
           /\ tmpDir' = IF reqs[g].unlinked THEN tmpDir
                        ELSE [tmpDir EXCEPT
                                 ![reqs[g].name] =
                                     WriteAt(@, reqs[g].off, got.plain)]
           /\ Go(g, [reqs[g] EXCEPT
                        !.i = reqs[g].i + 1,
                        !.off = reqs[g].off + BLen(got.plain),
                        !.pc = IF reqs[g].i = Len(reqs[g].shards)
                               THEN "send" ELSE "fetch"])
    /\ UNCHANGED <<concVars, storeVars, db, orig, nOps>>

\* c.FileAttachment(outputPath, model.FileName) and the deferred
\* os.Remove(outputPath)
ConcDownloadSend(g) ==
    /\ reqs[g].pc = "send"
    /\ IF reqs[g].name \in DOMAIN tmpDir
       THEN Answer(g, 200, "", tmpDir[reqs[g].name], reqs[g].id)
       ELSE Answer(g, 404, "404 page not found", <<>>, reqs[g].id)
    /\ UNCHANGED <<concVars, storeVars, db, orig, nOps>>

NextConc ==
    \E g \in Handlers :
        \/ \E name \in Names, content \in ConcContents :
               ConcUploadCreate(g, name, content)
        \/ ConcUploadCopy(g)
        \/ ConcUploadSplit(g)
        \/ ConcShardAdd(g)
        \/ ConcShardWrite(g)
        \/ ConcUploadFinish(g, ConcGenerateCID(reqs[g].n))
        \/ \E cid \in DOMAIN db : ConcDownloadCreate(g, cid)
        \/ ConcDownloadStep(g)
        \/ ConcDownloadSend(g)

SpecConc == InitConc /\ [][NextConc]_vars

(***************************************************************************)
(* Properties.                                                             *)
(***************************************************************************)
\* the plaintext of a shard of a descriptor, under the package key
PlainOf(shard) == DecryptData(shard.Data, encryptionKey).plain

RECURSIVE ConcatPlain(_, _)
ConcatPlain(shards, k) ==
    IF k = 0 THEN <<>>
    ELSE BCat(ConcatPlain(shards, k - 1), PlainOf(shards[k]))

RECURSIVE SumPlainLen(_, _)
SumPlainLen(shards, k) ==
    IF k = 0 THEN 0 ELSE SumPlainLen(shards, k - 1) + BLen(PlainOf(shards[k]))

\* C1: with every store operation succeeding, the download of an uploaded
\* file of at most MaxFileSizeBytes bytes answers 200 and its output is
\* byte-for-byte the file that was uploaded.
C1_RoundTrip ==
    (resp.kind = "download" /\ resp.code \notin {401, 404}) =>
        /\ resp.code = 200
        /\ resp.body = orig[resp.id].content
        /\ BLen(resp.body) <= MaxFileSizeBytes

C1_Witness ==
    /\ resp.kind = "download"
    /\ resp.code = 200
    /\ resp.body = SmallFile(11)

\* C9: SplitFileIntoShards returns exactly 5 shards; shards 0..3 hold
\* S div 5 bytes each and shard 4 holds S div 5 + S mod 5 bytes (both the
\* storage and the p2p implementation).
C9_ShardSizes ==
    (req.kind = "upload" /\ req.pc = "shard" /\ req.i = 1) =>
        LET S == BLen(tmpDir[req.name])
            p2p == P2PSplitFileIntoShards(tmpDir[req.name], 5)
        IN  /\ Len(req.shards) = 5
            /\ \A k \in 1..4 : BLen(req.shards[k].Data) = S \div 5
            /\ BLen(req.shards[5].Data) = (S \div 5) + (S % 5)
            /\ Len(p2p) = 5
            /\ \A k \in 1..4 : BLen(p2p[k]) = S \div 5
            /\ BLen(p2p[5]) = (S \div 5) + (S % 5)

C9_Witness ==
    /\ req.kind = "upload" /\ req.pc = "shard" /\ req.i = 1
    /\ tmpDir[req.name] = SmallFile(11)
    /\ \A k \in 1..4 : BLen(req.shards[k].Data) = 2
    /\ BLen(req.shards[5].Data) = 3

\* C10: the fragment list of every recorded descriptor is in the order of
\* the fragmenter, its plaintexts concatenated are the bytes of the source,
\* and their lengths add up to the file size of the descriptor.
C10_FragmentOrder ==
    \A id \in DOMAIN db :
        LET shards == UnmarshalShards(db[id].Shards)
            split == SplitFileIntoShards(orig[id].content)
        IN  /\ Len(shards) = Len(split)
            /\ \A k \in DOMAIN shards : shards[k].ID = split[k].ID
            /\ ConcatPlain(shards, Len(shards)) = orig[id].content
            /\ SumPlainLen(shards, Len(shards)) = orig[id].size

C10_Witness ==
    \E id \in DOMAIN db :
        /\ orig[id].content = BigFile(MaxFileSizeBytes)
        /\ Len(db[id].Shards) = 5

\* the uploads whose loop was aborted by a failed sh.Add
AbortedUploads == {a.n : a \in aborted}

\* C2 (as claimed): once a key has been rotated in, every shard of an upload
\* that starts after the rotation is encrypted under the active key of the
\* KeyManager.
C2_NewUploadsUseActiveKey ==
    \A id \in DOMAIN db :
        (rotatedAt > 0 /\ orig[id].n > rotatedAt) =>
            \A k \in DOMAIN db[id].Shards :
                UnmarshalShards(db[id].Shards)[k].Data.key
                    = HexDecode(km.Keys[km.Active])

C4_NoPartialOutput ==
    (resp.kind = "download" /\ resp.code = 500) =>
        resp.name \notin DOMAIN tmpDir

\* C5: an upload whose sh.Add of shard i failed answers 500, no descriptor
\* of that upload is ever in the database, and the shards before i stay in
\* IPFS.
C5_PutFailureAborts ==
    /\ \A a \in aborted :
           /\ req.n # a.n
           /\ \A id \in DOMAIN db :
                  orig[id].n # a.n /\ db[id].CreatedAt # a.n
           /\ \A k \in 1..(a.failedAt - 1) :
                  /\ a.shards[k].CID \in DOMAIN ipfs
                  /\ ipfs[a.shards[k].CID] = a.shards[k].Data
    /\ (resp.kind = "upload" /\ resp.n \in AbortedUploads) =>
           resp.code = 500 /\ resp.err = "failed to add shard to IPFS"

C5_Witness ==
    \E a \in aborted :
        /\ a.failedAt = 3
        /\ resp.kind = "upload" /\ resp.n = a.n /\ resp.code = 500
        /\ {a.shards[1].CID, a.shards[2].CID} \subseteq DOMAIN ipfs

\* C6: an upload in which the write of a permanent copy failed while sh.Add
\* succeeded still answers 200 and records its descriptor (unless the new
\* id is already a row of the database), and a later download of that file
\* to which IPFS delivers every shard answers 200 with the uploaded bytes.
C6_LocalWriteFailureTolerated ==
    /\ (resp.kind = "upload" /\ resp.n \in localFailed
            /\ resp.n \notin AbortedUploads) =>
           \/ /\ resp.code = 200
              /\ resp.id \in DOMAIN db
              /\ orig[resp.id].n = resp.n
           \/ resp.err = "Database error"
    /\ (resp.kind = "download" /\ resp.code \notin {401, 404}
            /\ orig[resp.id].n \in localFailed /\ ~resp.faulted) =>
           resp.code = 200 /\ resp.body = orig[resp.id].content

C6_Witness ==
    /\ resp.kind = "download"
    /\ resp.code = 200
    /\ orig[resp.id].n \in localFailed
    /\ \E k \in DOMAIN resp.shards :
           resp.shards[k].ID \notin DOMAIN storageDir
    /\ resp.body = orig[resp.id].content

\* C7 (as claimed): no upload of more than MaxFileSizeBytes bytes gets past
\* the size check, so none is split, stored or recorded.
C7_OversizeRefused ==
    /\ (req.kind = "upload" /\ req.pc # "idle") =>
           req.size <= MaxFileSizeBytes
    /\ \A id \in DOMAIN db : orig[id].size <= MaxFileSizeBytes

\* C8 (as claimed): a handler runs only for a request whose Authorization
\* header carries the token stored by auth.GenerateToken.
C8_OnlyAuthenticated ==
    (req.pc # "idle") =>
        /\ token # ""
        /\ req.header.scheme = "Bearer "
        /\ req.header.cred = token

\* C11: within a download the output file always holds the plaintexts of
\* the shards before the current one, in list order, and nothing else; each
\* write appends the plaintext of the next shard.
C11_AscendingWrites ==
    (req.kind = "download" /\ req.pc \in {"fetch", "send"}) =>
        /\ req.i \in 1..(Len(req.shards) + 1)
        /\ tmpDir[req.name] = ConcatPlain(req.shards, req.i - 1)

C11_Witness ==
    /\ req.kind = "download" /\ req.pc = "fetch" /\ req.i = 5
    /\ tmpDir[req.name] = ConcatPlain(req.shards, 4)
    /\ PlainOf(req.shards[5]) # PlainOf(req.shards[4])

\* the keys of the three AES sizes
AesKeys == {Key16, Key24, InitialKey}

\* the calls of Decrypt that got as far as decrypt(ciphertext, key)
Opened == {t \in Callers : /\ callers[t].op = "Decrypt"
                           /\ callers[t].pc = "done"
                           /\ callers[t].key # NoKey}

C13_RotateKeyCompletes ==
    \A t \in Callers :
        (callers[t].op = "RotateKey" /\ callers[t].pc # "done")
            ~> (callers[t].pc = "done")

\* C14 (as claimed): the active version is a key of the ring, and every
\* version label that ever existed still maps to the key it was created
\* with.
C14_AppendOnly ==
    /\ km.Active \in DOMAIN km.Keys
    /\ \A v \in DOMAIN born : v \in DOMAIN km.Keys /\ km.Keys[v] = born[v]

\* C15 (as claimed): at every instant the key file holds a complete ring.
C15_AtomicSave ==
    /\ Len(kmFile) = 1
    /\ kmFile[1].Active \in DOMAIN kmFile[1].Keys

\* the calls of Decrypt that have returned and whose frame names a version
\* that is not in the ring
UnknownVersion ==
    {t \in Callers : /\ callers[t].op = "Decrypt"
                     /\ callers[t].pc = "done"
                     /\ callers[t].frame.sep
                     /\ callers[t].frame.version \notin DOMAIN km.Keys}

\* C17 (as claimed): decrypting a frame whose version label is not in the
\* ring fails with the unknown-version error whatever the rest of the frame
\* holds.
C17_UnknownKeyVersion ==
    \A t \in UnknownVersion :
        /\ callers[t].ret.err = "key version not found"
        /\ callers[t].ret.plain = <<>>

\* C17 (amended): decrypting a frame whose version label is not in the ring
\* returns no plaintext; the error is the unknown-version error when the
\* payload is valid hex and the hex-decoding error otherwise.
C17_UnknownVersionFails ==
    \A t \in UnknownVersion :
        /\ callers[t].ret.plain = <<>>
        /\ callers[t].ret.err = IF callers[t].frame.hexOk
                                THEN "key version not found"
                                ELSE "failed to decode ciphertext"

C17_Witness ==
    \E t \in UnknownVersion :
        /\ ~callers[t].frame.hexOk
        /\ callers[t].ret.err = "failed to decode ciphertext"
        /\ callers[t].ret.plain = <<>>

\* the positions of a call at which the caller has locked km.mu
InsideMutex ==
    {"ga_read", "ga_ret", "gk", "rk_check", "rk_keys", "rk_active",
     "save_lock", "save_trunc", "save_write"}

\* C19: at most one caller is between Lock and Unlock of km.mu, and
\* GetActiveKey returns the active version with the key the ring maps to it.
C19_Serialized ==
    /\ \A t \in Callers :
           (callers[t].pc \in InsideMutex /\ callers[t].pc # "save_lock") =>
               kmMu = t
    /\ \A t, u \in Callers :
           (callers[t].pc \in InsideMutex /\ callers[u].pc \in InsideMutex) =>
               t = u
    /\ \A t \in Callers :
           callers[t].pc = "ga_ret" =>
               callers[t].seen = HexDecode(km.Keys[km.Active])

C19_Witness ==
    /\ callers["t1"].pc = "ga_ret"
    /\ callers["t2"].op = "RotateKey"
    /\ callers["t2"].pc = "lock"

\* the calls of RotateKey with a key that is not 16, 24 or 32 bytes long
BadRotate ==
    {t \in Callers : /\ callers[t].op = "RotateKey"
                     /\ callers[t].key.len \notin {16, 24, 32}}

\* C20: RotateKey with a key of another length returns the invalid-length
\* error, and no step of that call changes the ring or the key file.
C20_InvalidKeyLength ==
    /\ [](\A t \in BadRotate :
             /\ callers[t].pc \in {"lock", "rk_check", "done"}
             /\ callers[t].pc = "done" =>
                    callers[t].ret.err = "invalid key length")
    /\ [][\A t \in BadRotate :
             callers'[t] # callers[t] =>
                 km' = km /\ kmFile' = kmFile /\ born' = born]_vars

C20_Witness ==
    \E t \in BadRotate :
        /\ callers[t].pc = "done"
        /\ callers[t].key.len = 8
        /\ callers[t].ret.err = "invalid key length"
        /\ km \in InitialRings
        /\ kmFile = MarshalIndent(km)

\* C16 (as claimed): every row is stored under its own identifier and is
\* the row first stored under it, and no upload fails because its new
\* identifier is already a row (the collision is retried with a fresh one).
C16_UniqueFileId ==
    /\ \A id \in DOMAIN db :
           db[id].CID = id /\ db[id].CreatedAt = orig[id].n
    /\ resp.kind = "upload" => resp.err # "Database error"

\* C18 (as claimed): every identifier under which a row is stored is 16
\* characters of the hex alphabet.
C18_FileIdFormat ==
    \A id \in DOMAIN db :
        /\ Len(id) = 16
        /\ \A i \in DOMAIN id : \E d \in DOMAIN HexAlphabet : id[i] = HexAlphabet[d]

\* C22 (as claimed): every fragment of every recorded descriptor has its
\* ciphertext both in IPFS under its CID and in the local shard store under
\* its shard ID, and the two are the same blob.
C22_BothStores ==
    \A id \in DOMAIN db :
        \A k \in DOMAIN db[id].Shards :
            LET shard == UnmarshalShards(db[id].Shards)[k]
            IN  /\ shard.CID \in DOMAIN ipfs
                /\ ipfs[shard.CID] = shard.Data
                /\ shard.ID \in DOMAIN storageDir
                /\ storageDir[shard.ID] = shard.Data

\* C24 (as claimed): the count GetShardCount reports is the number of shard
\* files in the local storage directory.
C24_ShardCount == GetShardCount = ScanShardCount(storageDir)

\* C27 (as claimed): the fingerprint is the first 16 hex characters of the
\* hash of the shard CIDs concatenated in list order.
C27_FingerprintHex16 ==
    (req.kind = "upload" /\ req.pc = "finish") =>
        GlobalCID(req.shards)
            = SubSeq(EncodeToString(Sum256(Concatenated(req.shards))), 1, 16)

\* C27 (amended): the fingerprint is the first 16 bytes of the hash of the
\* shard CIDs concatenated in list order, in hex: 32 characters, two for
\* each of the bytes 1..16 of the hash.
C27_FingerprintBytes16 ==
    (req.kind = "upload" /\ req.pc = "finish") =>
        LET fp == GlobalCID(req.shards)
            str == [k \in 1..Len(req.shards) |-> req.shards[k].CID]
        IN  /\ Len(fp) = 32
            /\ \A j \in 1..32 :
                   /\ fp[j].hexOf = [sha256 |-> str, byte |-> (j + 1) \div 2]
                   /\ fp[j].nibble = IF j % 2 = 1 THEN 1 ELSE 2

C27_Witness ==
    /\ req.kind = "upload" /\ req.pc = "finish"
    /\ Len(req.shards) = 5
    /\ \A k \in 1..5 : req.shards[k].CID = IpfsAdd(req.shards[k].Data)
    /\ Len(GlobalCID(req.shards)) = 32

\* C28: every local shard file and every Data of a recorded descriptor is
\* what EncryptData returned for the shard under the package key: it opens
\* under that key only, to the bytes whose hash is the shard ID.
C28_NoPlaintextAtRest ==
    /\ \A id \in DOMAIN storageDir :
           /\ storageDir[id].key = encryptionKey
           /\ DecryptData(storageDir[id], NoKey).err # ""
           /\ Sha256Hex(DecryptData(storageDir[id], encryptionKey).plain) = id
    /\ \A id \in DOMAIN db :
           \A k \in DOMAIN db[id].Shards :
               LET shard == UnmarshalShards(db[id].Shards)[k]
               IN  /\ shard.Data.key = encryptionKey
                   /\ DecryptData(shard.Data, NoKey).err # ""
                   /\ Sha256Hex(PlainOf(shard)) = shard.ID

C28_Witness ==
    /\ \E id \in DOMAIN storageDir :
           storageDir[id].pt = << <<"a", MaxFileSizeBytes \div numShards>> >>
    /\ \E id \in DOMAIN db :
           /\ Len(db[id].Shards) = 5
           /\ UnmarshalShards(db[id].Shards)[5].Data.key = encryptionKey

\* C25 (as claimed): a file of S < 5 bytes is split into S fragments of one
\* byte followed by empty ones, or into max(1, S) fragments, and its
\* download gives the file back.
C25_OneByteFragments ==
    /\ (req.kind = "upload" /\ req.pc = "shard" /\ req.i = 1
            /\ BLen(tmpDir[req.name]) < numShards) =>
           LET S == BLen(tmpDir[req.name])
           IN  \/ /\ Len(req.shards) = numShards
                  /\ \A k \in 1..numShards :
                         BLen(req.shards[k].Data) = IF k <= S THEN 1 ELSE 0
               \/ Len(req.shards) = IF S = 0 THEN 1 ELSE S
    /\ (resp.kind = "download" /\ resp.code \notin {401, 404}
            /\ orig[resp.id].size < numShards) =>
           resp.code = 200 /\ resp.body = orig[resp.id].content

\* C25 (amended): a file of S < 5 bytes is split into four empty fragments
\* followed by one fragment that holds the S bytes, and its download gives
\* the file back.
C25_ShortFileRoundTrip ==
    /\ (req.kind = "upload" /\ req.pc = "shard" /\ req.i = 1
            /\ BLen(tmpDir[req.name]) < numShards) =>
           /\ Len(req.shards) = numShards
           /\ \A k \in 1..(numShards - 1) : req.shards[k].Data = <<>>
           /\ req.shards[numShards].Data = tmpDir[req.name]
    /\ (resp.kind = "download" /\ resp.code \notin {401, 404}
            /\ orig[resp.id].size < numShards) =>
           resp.code = 200 /\ resp.body = orig[resp.id].content

C25_Witness ==
    /\ resp.kind = "download"
    /\ resp.code = 200
    /\ BLen(resp.body) = 3
    /\ resp.body = orig[resp.id].content
    /\ PlainOf(resp.shards[1]) = <<>>
    /\ PlainOf(resp.shards[5]) = resp.body

\* C26 (as claimed): the download that starts leaves a file that already
\* exists at its output path as it is.
C26_ExclusiveCreate ==
    [][(req.pc = "idle" /\ req'.kind = "download" /\ req'.pc = "fetch"
            /\ req'.name \in DOMAIN tmpDir) =>
           tmpDir'[req'.name] = tmpDir[req'.name]]_vars

\* C21: when NewKeyManager has found no key file and is about to return the
\* KeyManager, the ring holds the single version v1 with a 32-byte key, v1
\* is active, and the key file exists and holds that ring.
C21_FreshRingSaved ==
    \A t \in Callers :
        (callers[t].op = "NewKeyManager" /\ callers[t].pc = "nk_ret") =>
            /\ DOMAIN km.Keys = {"v1"}
            /\ HexDecode(km.Keys["v1"]).len = 32
            /\ km.Active = "v1"
            /\ kmFileExists
            /\ kmFile = <<km>>
            /\ kmMu = "free"

C21_Witness ==
    /\ callers["t1"].op = "NewKeyManager"
    /\ callers["t1"].pc = "nk_ret"
    /\ kmFileExists
    /\ Len(kmFile) = 1
    /\ kmFile[1].Active = "v1"

\* the handlers that have opened the shard file of that ID and not yet
\* written it
Writers(id) ==
    {g \in Handlers : /\ reqs[g].pc = "lwrite"
                      /\ reqs[g].shards[reqs[g].i].ID = id}

\* C23: whenever no handler is between the open and the write of a shard
\* file, the file holds the complete ciphertext of one of its writers (a
\* blob that writer added to IPFS), which opens under the package key to
\* the bytes whose hash is the shard ID.
C23_ConcurrentShardWrites ==
    \A id \in DOMAIN storageDir :
        Writers(id) = {} =>
            /\ \E cid \in DOMAIN ipfs : ipfs[cid] = storageDir[id]
            /\ DecryptData(storageDir[id], encryptionKey).err = ""
            /\ Sha256Hex(DecryptData(storageDir[id], encryptionKey).plain) = id

C23_Witness ==
    \E g \in Handlers, h \in Handlers :
        /\ g # h
        /\ reqs[g].pc = "lwrite"
        /\ reqs[h].kind = "upload" /\ reqs[h].pc \in {"add", "finish"}
        /\ LET id == reqs[g].shards[reqs[g].i].ID
           IN  /\ storageDir[id] # Truncated
               /\ \E k \in 1..(reqs[h].i - 1) :
                      /\ reqs[h].shards[k].ID = id
                      /\ reqs[h].shards[k].Data = storageDir[id]

\* C29 (as claimed): with concurrent uploads under one name, the shards of
\* every recorded descriptor decrypt to the bytes its request uploaded, and
\* no upload fails because the temporary file is gone.
C29_SameNameUploads ==
    /\ \A id \in DOMAIN db :
           ConcatPlain(UnmarshalShards(db[id].Shards), Len(db[id].Shards))
               = orig[id].content
    /\ \A g \in Handlers :
           (reqs[g].kind = "upload" /\ reqs[g].pc = "done") =>
               reqs[g].err \notin {"Upload failed: open", "Upload failed: stat"}

\* C30 (as claimed): with concurrent downloads under one name, every
\* download answers 200 with the plaintexts of the shards of its own
\* descriptor, in order.
C30_SameNameDownloads ==
    \A g \in Handlers :
        (reqs[g].kind = "download" /\ reqs[g].pc = "done") =>
            /\ reqs[g].code = 200
            /\ reqs[g].body
                   = ConcatPlain(UnmarshalShards(db[reqs[g].id].Shards),
                                 Len(db[reqs[g].id].Shards))

====
